---------------------------- MODULE Spec2Model ----------------------------
(***************************************************************************)
(* A model of the computational core of src/tracking.py:                   *)
(*                                                                         *)
(*   - Bout.process_saccades on its default (speed_noise_method) path and  *)
(*     Bout.get_stats: the candidates of the peak finder, the Saccade      *)
(*     built for each, the threshold_speed test, and the loop that         *)
(*     eliminates overlapping saccades;                                    *)
(*   - Kalman_Filter and KalmanAngle: store / predict with the unwrap      *)
(*     book-keeping, get_prediction, add_starting_points, add_measurement. *)
(*                                                                         *)
(* Frames are numbered from 0 as in the source.  Headings of a Bout are    *)
(* integers in units of one degree divided by the framerate, so that a     *)
(* first difference times the framerate is a velocity in degrees per       *)
(* second.  Angles given to KalmanAngle are integers in units of pi/GridPi.*)
(***************************************************************************)
EXTENDS Integers, Sequences, FiniteSets, TLC

(***************************************************************************)
(* Bounds of the model.                                                    *)
(***************************************************************************)
\* frames of a short trial, whose heading takes every profile over Speeds
ShortFrames == 5
\* frames of a long trial, whose heading moves at one uniform speed
LongFrames == 9
\* frames of a trial long enough for a cluster of three candidates whose
\* last member is the longest
ClusterFrames == 11
\* candidates the peak finder gives on that trial
ClusterSize == 3
\* readings stored in one KalmanAngle
MaxReadings == 2
\* calls made on one filter
MaxCalls == 3
\* grid steps in pi: angles are multiples of pi/GridPi
GridPi == 3
\* frames of the series a single Saccade is built on
SeriesFrames == 12
\* entries of the velocity series on the path of runs above threshold
MaskFrames == 13
\* Saccades built by one call of process_saccades when its arrays are followed
MaxBuilt == 3
\* greatest coordinate of a point given to a filter followed by value, in
\* steps of two units
MaxCoordinate == 2
\* greatest offset, in frames, given to Saccade.query
MaxOffset == 1
\* greatest peak velocity of a single Saccade, in units of the baseline's
\* standard deviation
MaxPeak == 3

(***************************************************************************)
(* Program constants.                                                      *)
(***************************************************************************)
\* threshold_speed=350 (degrees per second), default of process_saccades
ThresholdSpeed == 350
\* find_peaks(..., width=3): right_ips - left_ips >= 3, so that after
\* int(round(.)) of both ends in Saccade.__init__, stop - start >= 2
MinWidth == 2
\* butterworth_filter(arr, low=0, high=10, ...): the low-pass bound in Hz
FilterHigh == 10
\* max(self.start - 10, 0): the frames before the onset taken as baseline
BaselineFrames == 10
\* `start > 10`: a run above threshold is looked at only past this frame
LeadFrames == 10

\* first differences of the heading times the framerate, degrees per second
Speeds == {-(ThresholdSpeed + 1), 0, ThresholdSpeed - 1, ThresholdSpeed}

\* Bout.framerate in Hz: one the low-pass filter refuses, one it accepts
Framerates == {2 * FilterHigh, 2 * FilterHigh + 4}

VARIABLES
    \* ---- Bout
    arr,              \* Bout.arr: frame -> heading
    framerate,        \* Bout.framerate
    pc,               \* position in the life of the Bout
    saccades,         \* Bout.saccades (the working set while resolving)
    new_saccades,     \* new_saccades of process_saccades
    detected,         \* Bout.saccades on entry of the overlap loop
    saccade_frequency,\* Bout.saccade_frequency, <<>> until get_stats
    success,          \* Saccade.success of each Saccade built, by id
    saccading_left,   \* Bout.saccading_left: frame -> marked, <<>> until get_stats
    saccading_right,  \* Bout.saccading_right, likewise
    \* ---- Kalman_Filter / KalmanAngle
    kind,             \* "idle", "filter" (Kalman_Filter) or "angle" (KalmanAngle)
    num_objects,      \* Kalman_Filter.num_objects
    Ex,               \* process noise covariance: 0 (jerk_std = 0, all zero) or 1
    Ez,               \* diagonal of the measurement noise covariance, 0 or 1 each
    params,           \* the attributes jerk, jerk_std, measurement_noise_x/_y
    Q_estimate,       \* one entry per column of Q_estimate: "nan" or "num"
    P,                \* the covariance, as the steps applied to copy(Ex)
    K,                \* "unset" until a gain has been computed, then "set"
    Q_loc_estimateX,  \* stored estimates: one row (Q_estimate[0]) per frame
    Q_loc_estimateY,  \* stored estimates: one row (Q_estimate[1]) per frame
    aliased,          \* the last stored row is a view of the live Q_estimate
    frame_num,        \* Kalman_Filter.frame_num
    Q_loc_meas,       \* the last array given to add_measurement
    last_point,       \* KalmanAngle.last_point
    revolutions,      \* KalmanAngle.revolutions
    record,           \* KalmanAngle.record
    readings,         \* the raw readings passed to store, in order
    calls,            \* number of calls made on the filter
    call,             \* the last call made: its name and argument
    ret,              \* outcome of the last call: exception or returned value
    \* ---- one Saccade under construction
    ctor,             \* the arguments of Saccade(...) and what it measures
    built,            \* the Saccade after __init__: success, start, stop
    query,            \* one call of Saccade.query: its arguments, its frames
    \* ---- process_saccades, the path of runs above threshold
    include,          \* include: frame -> speed above threshold
    starts,           \* starts, as left by the code so far
    stops,            \* stops, as left by the code so far
    candidate,        \* <<start, stop>> of the pair that reached line 4425
    \* ---- one call of butterworth_filter
    filt,             \* its arguments and how it ended
    \* ---- the arrays of one call, statement by statement
    heap,             \* the arrays that exist: what each was computed from
    names,            \* the array each name is bound to, 0 for none
    prog,             \* the call being followed
    line,             \* the next statement of its body
    \* ---- one Kalman_Filter followed by the value of its estimate
    track,            \* start, measurement, noises and the position estimate
    \* ---- one call of process_saccades followed through its strategy tests
    strategy          \* the flags, the test reached, the strategies entered

boutVars == <<arr, framerate, pc, saccades, new_saccades, detected,
              saccade_frequency, success, saccading_left, saccading_right>>
filterVars == <<Q_estimate, P, K, Q_loc_estimateX, Q_loc_estimateY, aliased,
                frame_num, Q_loc_meas>>
angleVars == <<last_point, revolutions, record, readings>>
kalmanVars == <<kind, num_objects, Ex, Ez, params, filterVars, angleVars,
                calls, call, ret>>
saccadeVars == <<ctor, built, query>>
thresholdVars == <<include, starts, stops, candidate>>
seriesVars == <<heap, names, prog, line>>
callVars == <<filt, seriesVars, track, strategy>>
vars == <<boutVars, kalmanVars, saccadeVars, thresholdVars, callVars>>

(***************************************************************************)
(* Helpers on sequences and integers.                                      *)
(***************************************************************************)
Abs(x) == IF x < 0 THEN -x ELSE x

Max(S) == CHOOSE x \in S : \A y \in S : y <= x

\* np.argmax: the first index holding the greatest value
ArgMax(seq) ==
    CHOOSE i \in 1..Len(seq) :
        /\ \A j \in 1..Len(seq) : seq[j] <= seq[i]
        /\ \A j \in 1..(i - 1) : seq[j] < seq[i]

RECURSIVE Filter(_, _)
\* the members of seq that are in the set keep, in order
Filter(seq, keep) ==
    IF seq = <<>> THEN <<>>
    ELSE IF Head(seq) \in keep
         THEN <<Head(seq)>> \o Filter(Tail(seq), keep)
         ELSE Filter(Tail(seq), keep)

Range(seq) == {seq[i] : i \in 1..Len(seq)}

(***************************************************************************)
(* Bout: the trial.                                                        *)
(***************************************************************************)
NumFrames(a) == Cardinality(DOMAIN a)

RECURSIVE HeadingAt(_, _)
\* the heading of frame i of a trial that starts at 0 and moves by diffs
HeadingAt(diffs, i) == IF i = 0 THEN 0 ELSE HeadingAt(diffs, i - 1) + diffs[i]

Heading(diffs) == [i \in 0..Len(diffs) |-> HeadingAt(diffs, i)]

ShortTrials == {Heading(d) : d \in [1..(ShortFrames - 1) -> Speeds]}

LongTrials == {Heading([i \in 1..(LongFrames - 1) |-> v]) : v \in Speeds}

Trials == ShortTrials \cup LongTrials

\* the trial of ClusterFrames frames at the threshold speed throughout
ClusterTrials ==
    {Heading([i \in 1..(ClusterFrames - 1) |-> ThresholdSpeed])}

(***************************************************************************)
(* Saccade.                                                                *)
(***************************************************************************)
\* The fields overlap resolution reads.  id tells apart two Saccade objects
\* with the same frames (list.remove and `in` compare objects); duration is
\* (stop - start) / framerate, kept in frames: the framerate is one positive
\* number for the whole Bout, so the order of durations is that of frames.
Saccade(id, start, stop) ==
    [id |-> id, start |-> start, stop |-> stop, duration |-> stop - start]

\* x in range(s.start, s.stop + 1)
InSpan(x, s) == s.start <= x /\ x <= s.stop

\* twice np.gradient(saccade.arr)[k - start] for saccade.arr = arr[start..stop]
\* (one-sided at both ends, central inside), times the framerate
Gradient2(a, start, stop, k) ==
    IF k = start THEN 2 * (a[start + 1] - a[start])
    ELSE IF k = stop THEN 2 * (a[stop] - a[stop - 1])
    ELSE a[k + 1] - a[k - 1]

\* twice peak_velo = abs(velos).max()
PeakVelo2(a, start, stop) ==
    Max({Abs(Gradient2(a, start, stop, k)) : k \in start..stop})

\* the test with the doubled peak speed against the threshold taken once
BelowThresholdHalved(a, start, stop) ==
    PeakVelo2(a, start, stop) < ThresholdSpeed

\* if peak_velo < threshold_speed * np.pi / 180.: saccade.success = False
BelowThreshold(a, start, stop) ==
    PeakVelo2(a, start, stop) < 2 * ThresholdSpeed

\* Saccade.__init__ can leave success True only with a non-empty window
\* velocity[max(start - 10, 0):start] before the onset, that is start >= 1
HasBaseline(start) == start >= 1

(***************************************************************************)
(* The candidates of the peak finder.                                      *)
(***************************************************************************)
Intervals(n) ==
    {iv \in (0..(n - 1)) \X (0..(n - 1)) : iv[2] - iv[1] >= MinWidth}

\* Two candidates, c found at an earlier peak than d.  Before rounding each
\* is the stretch around its peak where the speed stays above a level, so the
\* two are nested or apart; rounding can make two that are apart share one
\* frame.
Compatible(c, d) ==
    \/ c[2] <= d[1]
    \/ c[1] <= d[1] /\ d[2] <= c[2]
    \/ d[1] <= c[1] /\ c[2] <= d[2]

\* find_peaks(..., distance=dist/4) with dist = .5 * framerate: two peaks are
\* at least ceil(framerate / 8) frames apart
PeakDistance(rate) == (rate + 7) \div 8

RECURSIVE PeaksFit(_, _, _, _)
\* peaks in ascending order, dist apart, each inside its candidate: the
\* earliest peak each candidate from i on can take, given the one before
PeaksFit(cands, dist, i, earliest) ==
    IF i > Len(cands) THEN TRUE
    ELSE LET p == IF cands[i][1] > earliest THEN cands[i][1] ELSE earliest
         IN  p <= cands[i][2] /\ PeaksFit(cands, dist, i + 1, p + dist)

DetectorCanEmit(cands, dist) ==
    /\ PeaksFit(cands, dist, 1, 0)
    /\ \A i \in 1..Len(cands) : \A j \in (i + 1)..Len(cands) :
           Compatible(cands[i], cands[j])

RECURSIVE CandidateLists(_, _, _)
\* every list of at most m candidates the peak finder can give on n frames
\* (a list it can give extends, by one candidate, a list it can give)
CandidateLists(n, dist, m) ==
    IF m = 0 THEN {<<>>}
    ELSE LET shorter == CandidateLists(n, dist, m - 1)
             longest == {x \in shorter : Len(x) = m - 1}
         IN  shorter \cup
             {l \in {Append(x, iv) : x \in longest, iv \in Intervals(n)} :
                 DetectorCanEmit(l, dist)}

\* peaks dist apart on n frames
MaxCandidates(n, dist) == (n + dist - 1) \div dist

Candidates(n, rate) ==
    CandidateLists(n, PeakDistance(rate), MaxCandidates(n, PeakDistance(rate)))

(***************************************************************************)
(* Overlap resolution.                                                     *)
(***************************************************************************)
Overlaps(saccade, other_saccade) ==
    LET is_contained == \/ InSpan(saccade.start, other_saccade)
                        \/ InSpan(saccade.stop, other_saccade)
        contains_other == \/ InSpan(other_saccade.start, saccade)
                          \/ InSpan(other_saccade.stop, saccade)
        same_span == \/ saccade.start = other_saccade.start
                     \/ saccade.stop = other_saccade.stop
    IN  is_contained \/ contains_other \/ same_span

\* overlapping_saccades: the removed saccade, then the others that overlap it
Cluster(work) ==
    LET saccade == Head(work)
        Hit(o) == Overlaps(saccade, o)
    IN  <<saccade>> \o SelectSeq(Tail(work), Hit)

\* the removed saccade kept whatever overlaps it
KeptFirst(cluster) == cluster[1]

\* the last of the longest members kept
KeptLastLongest(cluster) ==
    LET longest == Max({cluster[i].duration : i \in 1..Len(cluster)})
        last == Max({i \in 1..Len(cluster) : cluster[i].duration = longest})
    IN  cluster[last]

\* the member of the cluster that goes to new_saccades
Kept(cluster) ==
    LET durs == [i \in 1..Len(cluster) |-> cluster[i].duration]
    IN  IF Len(cluster) > 1 THEN cluster[ArgMax(durs)] ELSE cluster[1]

\* a pass that removes nothing from self.saccades
NothingRemoved(work) == work

\* self.saccades after one pass of the while loop
Remaining(work) ==
    LET cluster == Range(Cluster(work))
        Stays(o) == o \notin cluster
    IN  SelectSeq(Tail(work), Stays)

\* the kept member put in front of new_saccades
PrependKept(out, work) == <<Kept(Cluster(work))>> \o out

\* new_saccades after one pass of the while loop
AppendKept(out, work) == Append(out, Kept(Cluster(work)))

RECURSIVE Resolve(_, _)
\* the whole loop, from working set work and new_saccades out
Resolve(work, out) ==
    IF work = <<>> THEN out
    ELSE Resolve(Remaining(work), AppendKept(out, work))

(***************************************************************************)
(* Bout.process_saccades, default path, and Bout.get_stats.                *)
(***************************************************************************)
\* The Saccades appended to self.saccades by the loop over zip(starts, stops):
\* candidate i is kept when its construction left success True (i in passed
\* stands for the baseline test on the interpolated peak velocity) and its
\* peak speed is not below threshold_speed.
Success(a, cands, passed) ==
    [i \in 1..Len(cands) |->
        /\ i \in passed
        /\ HasBaseline(cands[i][1])
        /\ ~BelowThreshold(a, cands[i][1], cands[i][2])]

\* every Saccade built goes to self.saccades, valid or not
Unchecked(flags) == DOMAIN flags

\* if saccade.success: self.saccades += [saccade]
Appended(flags) == {i \in DOMAIN flags : flags[i]}

Built(a, cands, passed) ==
    LET kept == Appended(Success(a, cands, passed))
        all == [i \in 1..Len(cands) |-> Saccade(i, cands[i][1], cands[i][2])]
    IN  Filter(all, {all[i] : i \in kept})

\* scipy.signal.butter(5, high, fs=sample_rate, btype='lowpass') wants
\* 0 < high < sample_rate / 2 and raises ValueError otherwise
FilterAccepts(rate) == 2 * FilterHigh < rate

\* process_saccades stopped by the low-pass filter, before self.saccades = []
FilterRaises ==
    /\ pc = "new"
    /\ ~FilterAccepts(framerate)
    /\ pc' = "error"
    /\ UNCHANGED <<arr, framerate, saccades, new_saccades, detected,
                   saccade_frequency, success, saccading_left, saccading_right>>
    /\ UNCHANGED <<kalmanVars, saccadeVars, thresholdVars, callVars>>

\* process_saccades up to the overlap loop: peaks found, Saccades built
Detect ==
    /\ pc = "new"
    /\ FilterAccepts(framerate)
    /\ \E cands \in Candidates(NumFrames(arr), framerate) :
         \E passed \in SUBSET (1..Len(cands)) :
            /\ success' = Success(arr, cands, passed)
            /\ saccades' = Built(arr, cands, passed)
            /\ detected' = saccades'
    /\ new_saccades' = <<>>
    /\ pc' = "resolve"
    /\ UNCHANGED <<arr, framerate, saccade_frequency, saccading_left,
                   saccading_right>>
    /\ UNCHANGED <<kalmanVars, saccadeVars, thresholdVars, callVars>>

\* one pass of: while len(self.saccades) > 0
ResolveStep ==
    /\ pc = "resolve"
    /\ saccades # <<>>
    /\ new_saccades' = AppendKept(new_saccades, saccades)
    /\ saccades' = Remaining(saccades)
    /\ UNCHANGED <<arr, framerate, pc, detected, saccade_frequency, success,
                   saccading_left, saccading_right>>
    /\ UNCHANGED <<kalmanVars, saccadeVars, thresholdVars, callVars>>

\* the loop ends: self.saccades = new_saccades
ResolveDone ==
    /\ pc = "resolve"
    /\ saccades = <<>>
    /\ saccades' = new_saccades
    /\ pc' = "done"
    /\ UNCHANGED <<arr, framerate, new_saccades, detected, saccade_frequency,
                   success, saccading_left, saccading_right>>
    /\ UNCHANGED <<kalmanVars, saccadeVars, thresholdVars, callVars>>

\* len(self.saccades) / self.duration as <<numerator, denominator>>: the
\* duration time.max() - time.min() is (frames - 1) / framerate
Frequency(n, frames, rate) == <<n * rate, frames - 1>>

\* twice saccade.peak_velocity: the velocity of greatest magnitude over the
\* frames start..stop, the velocity being np.gradient of the whole series.
\* The interpolation between frames is left out; it keeps the sign.
PeakVelocity2(a, start, stop) ==
    LET velos == [i \in 1..(stop - start + 1) |->
                    Gradient2(a, 0, NumFrames(a) - 1, start + i - 1)]
        speeds == [i \in 1..(stop - start + 1) |-> Abs(velos[i])]
    IN  velos[ArgMax(speeds)]

\* self.saccade_is_left = np.array(self.saccade_peak_velo) > 0
IsLeft(a, saccade) == PeakVelocity2(a, saccade.start, saccade.stop) > 0

\* storage = [self.saccading_left, self.saccading_right][1 * is_left]
Storage(is_left) == IF is_left THEN "saccading_right" ELSE "saccading_left"

\* the frames of storage[saccade.start:saccade.stop]
Slice(saccade) == saccade.start..(saccade.stop - 1)

\* the series `name` after the loop over zip(self.saccades, saccade_is_left)
Marked(a, sacs, name) ==
    [k \in DOMAIN a |->
        \E i \in 1..Len(sacs) : /\ Storage(IsLeft(a, sacs[i])) = name
                                /\ k \in Slice(sacs[i])]

\* get_stats on a Bout that has its saccades
GetStats ==
    /\ pc = "done"
    /\ saccade_frequency' = Frequency(Len(saccades), NumFrames(arr), framerate)
    /\ saccading_left' = Marked(arr, saccades, "saccading_left")
    /\ saccading_right' = Marked(arr, saccades, "saccading_right")
    /\ pc' = "stats"
    /\ UNCHANGED <<arr, framerate, saccades, new_saccades, detected, success>>
    /\ UNCHANGED <<kalmanVars, saccadeVars, thresholdVars, callVars>>

BoutInit ==
    /\ arr \in Trials
    /\ framerate \in Framerates
    /\ pc = "new"
    /\ saccades = <<>>
    /\ new_saccades = <<>>
    /\ detected = <<>>
    /\ saccade_frequency = <<>>
    /\ success = <<>>
    /\ saccading_left = <<>>
    /\ saccading_right = <<>>


(***************************************************************************)
(* Kalman_Filter and KalmanAngle.  Angles are integers on a grid of        *)
(* GridPi steps per pi; a float is a record that is either NaN or a grid   *)
(* value.  The estimate itself is kept by definedness only: each column of *)
(* Q_estimate is "nan" once any NaN has entered it (A @ Q and K @ D sum    *)
(* over the whole column, and 0 * NaN is NaN) and "num" otherwise.         *)
(***************************************************************************)
Num(v) == [nan |-> FALSE, v |-> v]
NaN == [nan |-> TRUE, v |-> 0]

\* the readings a caller can pass to store: the angles of (-pi, pi] and NaN
Angles == {Num(v) : v \in (1 - GridPi)..GridPi}
Readings == Angles \cup {NaN}

\* an ndarray: its shape and its rows
NoArray == [shape |-> <<>>, data |-> <<>>]
Scalar(x) == [shape |-> <<>>, data |-> <<<<x>>>>]
Uniform(r, c, x) == [shape |-> <<r, c>>,
                     data |-> [i \in 1..r |-> [j \in 1..c |-> x]]]
\* the arrays a caller passes to add_starting_points / add_measurement
Arrays == {Uniform(r, c, x) : r \in 1..2, c \in 1..2, x \in {Num(0), NaN}}

Definedness(x) == IF x.nan THEN "nan" ELSE "num"

\* outcomes of a call
Raised(e) == [exc |-> e, kind |-> "none", shape |-> <<>>, data |-> <<>>, v |-> 0]
ReturnedNone == [exc |-> "none", kind |-> "None", shape |-> <<>>,
                 data |-> <<>>, v |-> 0]
ReturnedArray(shape, data) == [exc |-> "none", kind |-> "array",
                               shape |-> shape, data |-> data, v |-> 0]
ReturnedFloat(x) == [exc |-> "none", kind |-> "float", shape |-> <<>>,
                     data |-> <<Definedness(x)>>, v |-> x.v]
NoCall == [op |-> "none", arg |-> NoArray]

\* the noise parameters update_vals is used to replace
NoiseKeys == {"jerk", "jerk_std", "measurement_noise_x", "measurement_noise_y"}

\* Kalman_Filter.__init__ with num_frames = None and jerk = 0; Ex and Ez are
\* computed here, from jerk_std and the measurement noises
Construct(k, n, jerk, noise) ==
    /\ kind = k
    /\ num_objects = n
    /\ Ex = jerk
    /\ Ez = noise
    /\ params = [key \in NoiseKeys |->
                    IF key = "jerk_std" THEN jerk
                    ELSE IF key = "measurement_noise_x" THEN noise[1]
                    ELSE IF key = "measurement_noise_y" THEN noise[2]
                    ELSE 0]
    /\ Q_estimate = [j \in 1..n |-> "nan"]
    /\ P = <<>>
    /\ K = "unset"
    /\ Q_loc_estimateX = <<>>
    /\ Q_loc_estimateY = <<>>
    /\ aliased = FALSE
    /\ frame_num = 0
    /\ Q_loc_meas = NoArray
    /\ calls = 0
    /\ call = NoCall
    /\ ret = ReturnedNone

\* KalmanAngle.__init__: one object, measurement_noise_y = 0
ConstructAngle(jerk, noise_x) ==
    /\ Construct("angle", 1, jerk, <<noise_x, 0>>)
    /\ last_point = Num(0)
    /\ revolutions = 0
    /\ record = <<>>
    /\ readings = <<>>

\* C @ P @ C.T + Ez has no inverse.  P starts as Ex and x and y never mix,
\* so the matrix is diagonal with entries P_xx + Ez_x and P_yy + Ez_y; with
\* jerk_std = 0 P stays all zero, otherwise both entries are positive.
Singular == Ex = 0 /\ (Ez[1] = 0 \/ Ez[2] = 0)

\* the shapes numpy would broadcast against (num_objects, 2)
Broadcastable(points) ==
    /\ Len(points.shape) = 2
    /\ points.shape[2] = 2
    /\ points.shape[1] \in {1, num_objects}

\* points.shape == (self.num_objects, 2)
ShapeOk(points) == points.shape = <<num_objects, 2>>

\* A @ Q_estimate + (B * jerk)[:, None]: a column stays NaN or stays a number
Propagate(q) == [j \in DOMAIN q |-> q[j]]

\* what get_prediction returns: estimate_points.T, one row per object, or
\* the one-dimensional np.array([nan, nan]) of the except branch
PredictionReturned ==
    IF Singular
    THEN ReturnedArray(<<2>>, <<"nan", "nan">>)
    ELSE ReturnedArray(<<num_objects, 2>>,
                       [j \in 1..num_objects |-> Q_estimate[j]])

\* a get_prediction that advances the state and the covariance and assigns
\* no gain
PredictionWithoutGain ==
    /\ Q_estimate' = Propagate(Q_estimate)
    /\ P' = Append(P, "predict")
    /\ K' = K
    /\ aliased' = FALSE
    /\ UNCHANGED <<Q_loc_estimateX, Q_loc_estimateY, frame_num, Q_loc_meas>>

\* the body of get_prediction: the state and the covariance are advanced
\* before the gain is tried; K is assigned only when the inverse exists
DoGetPrediction ==
    /\ Q_estimate' = Propagate(Q_estimate)
    /\ P' = Append(P, "predict")
    /\ K' = IF Singular THEN K ELSE "set"
    /\ aliased' = FALSE
    /\ UNCHANGED <<Q_loc_estimateX, Q_loc_estimateY, frame_num, Q_loc_meas>>

\* Q_estimate[:2] = points.T after fill(0): column j takes row j of points,
\* one row being broadcast over every column
StartingColumns(points) ==
    [j \in DOMAIN Q_estimate |->
        LET i == IF points.shape[1] = 1 THEN 1 ELSE j
        IN  IF \E c \in 1..2 : points.data[i][c].nan THEN "nan" ELSE "num"]

\* Q_estimate[1] after fill(0) and Q_estimate[:2] = points.T: the y of the
\* row of points each column took
StartingRowY(points) ==
    [j \in DOMAIN Q_estimate |->
        LET i == IF points.shape[1] = 1 THEN 1 ELSE j
        IN  Definedness(points.data[i][2])]

\* the stored rows after an in-place write: the last one changes if it is
\* still a view of the array
Overwritten(stored, row) ==
    IF aliased THEN [stored EXCEPT ![Len(stored)] = row] ELSE stored

\* the body of add_starting_points.  fill and the slice assignment write
\* into the array in place, so a stored row that is still a view of it
\* changes with it; the new rows Q_estimate[0] and Q_estimate[1] are
\* appended as views.  (For the arrays given here the x of a column is NaN
\* exactly when the column holds a NaN.)
DoAddStartingPoints(points) ==
    IF ~ShapeOk(points)
    THEN /\ ret' = Raised("AssertionError")
         /\ UNCHANGED filterVars
    ELSE LET q == StartingColumns(points)
             y == StartingRowY(points)
         IN  /\ Q_estimate' = q
             /\ Q_loc_estimateX' = Append(Overwritten(Q_loc_estimateX, q), q)
             /\ Q_loc_estimateY' = Append(Overwritten(Q_loc_estimateY, y), y)
             /\ aliased' = TRUE
             /\ frame_num' = frame_num + 1
             /\ ret' = ReturnedNone
             /\ UNCHANGED <<P, K, Q_loc_meas>>

\* Q_estimate + K @ (Q_loc_meas - C @ Q_estimate): the (num_objects, 2)
\* measurement is broadcast against the (2, columns) estimate, the result
\* has two columns, and column j takes column j of the measurement and
\* column j of the estimate (its only column when it has one)
UpdatedColumns(points) ==
    [j \in 1..2 |->
        LET c == IF Len(Q_estimate) = 1 THEN 1 ELSE j
        IN  IF Q_estimate[c] = "nan"
               \/ \E i \in 1..points.shape[1] : points.data[i][j].nan
            THEN "nan" ELSE "num"]

\* the body of add_measurement: the gain K exists only after a
\* get_prediction that could compute it
DoAddMeasurement(points) ==
    IF ~ShapeOk(points)
    THEN /\ ret' = Raised("AssertionError")
         /\ UNCHANGED filterVars
    ELSE IF K = "unset"
    THEN /\ Q_loc_meas' = points
         /\ ret' = Raised("AttributeError")
         /\ UNCHANGED <<Q_estimate, P, K, Q_loc_estimateX, Q_loc_estimateY,
                        aliased, frame_num>>
    ELSE /\ Q_loc_meas' = points
         /\ Q_estimate' = UpdatedColumns(points)
         /\ P' = Append(P, "update")
         /\ Q_loc_estimateX' = Append(Q_loc_estimateX, UpdatedColumns(points))
         /\ Q_loc_estimateY' = Append(Q_loc_estimateY, UpdatedColumns(points))
         /\ aliased' = TRUE
         /\ frame_num' = frame_num + 1
         /\ ret' = ReturnedNone
         /\ UNCHANGED K

Called(op, arg) ==
    /\ calls < MaxCalls
    /\ calls' = calls + 1
    /\ call' = [op |-> op, arg |-> arg]
    /\ UNCHANGED <<kind, num_objects, Ex, Ez>>
    /\ UNCHANGED <<boutVars, saccadeVars, thresholdVars, callVars>>

\* Kalman_Filter.get_prediction
GetPrediction ==
    /\ kind = "filter"
    /\ Called("get_prediction", NoArray)
    /\ DoGetPrediction
    /\ ret' = PredictionReturned
    /\ UNCHANGED <<params, angleVars>>

\* Kalman_Filter.add_starting_points
AddStartingPoints ==
    /\ kind = "filter"
    /\ \E points \in Arrays :
          /\ Called("add_starting_points", points)
          /\ DoAddStartingPoints(points)
    /\ UNCHANGED <<params, angleVars>>

\* Kalman_Filter.add_measurement
AddMeasurement ==
    /\ kind = "filter"
    /\ \E points \in Arrays :
          /\ Called("add_measurement", points)
          /\ DoAddMeasurement(points)
    /\ UNCHANGED <<params, angleVars>>

\* `point is np.nan` after point = np.copy(point): the copy is a new
\* zero-dimensional array, never the object np.nan, whatever was passed
IsNanObject(point) == FALSE

BelowMinusHalfPi(x) == ~x.nan /\ 2 * x.v < -GridPi
AboveHalfPi(x) == ~x.nan /\ 2 * x.v > GridPi

\* the revolution count after a reading, from the last one
Revolved(last, point, revs) ==
    IF BelowMinusHalfPi(last) /\ AboveHalfPi(point) THEN revs - 1
    ELSE IF AboveHalfPi(last) /\ BelowMinusHalfPi(point) THEN revs + 1
    ELSE revs

\* the reading with half a turn added per revolution
UnwrappedByHalfTurns(point, revs) ==
    IF point.nan THEN NaN ELSE Num(point.v + GridPi * revs)

\* point += 2 * np.pi * self.revolutions
Unwrapped(point, revs) ==
    IF point.nan THEN NaN ELSE Num(point.v + 2 * GridPi * revs)

\* output %= 2 * pi, and nothing after it
WrapWithoutFold(x) == x % (2 * GridPi)

\* output %= 2 * pi, then folded into [-pi, pi]
WrapAngle(x) ==
    LET output == x % (2 * GridPi)
    IN  IF output > GridPi THEN output - 2 * GridPi
        ELSE IF output < -GridPi THEN output + 2 * GridPi
        ELSE output

\* the unwrapped estimates predict may find in Q_estimate[0, 0]
Estimates == (-3 * GridPi)..(3 * GridPi)

\* KalmanAngle.store
Store ==
    /\ kind = "angle"
    /\ Len(readings) < MaxReadings
    /\ \E reading \in Readings :
          LET point == IF IsNanObject(reading) THEN last_point ELSE reading
              revs == Revolved(last_point, point, revolutions)
              unwrapped == Unwrapped(point, revs)
              points == [shape |-> <<1, 2>>,
                         data |-> <<<<unwrapped, Num(0)>>>>]
          IN  /\ Called("store", Scalar(reading))
              /\ readings' = Append(readings, reading)
              /\ revolutions' = revs
              /\ last_point' = point
              /\ record' = Append(record, unwrapped)
              /\ IF frame_num = 0
                 THEN DoAddStartingPoints(points)
                 ELSE DoAddMeasurement(points)
    /\ UNCHANGED params

\* KalmanAngle.predict: get_prediction()[0, 0] needs two dimensions
Predict ==
    /\ kind = "angle"
    /\ Called("predict", NoArray)
    /\ DoGetPrediction
    /\ IF Len(PredictionReturned.shape) < 2
       THEN ret' = Raised("IndexError")
       ELSE IF PredictionReturned.data[1] = "nan"
       THEN ret' = ReturnedFloat(NaN)
       ELSE \E output \in Estimates : ret' = ReturnedFloat(Num(WrapAngle(output)))
    /\ UNCHANGED <<params, angleVars>>

\* the attributes update_vals can reach that the stored estimates live in
Attributes ==
    [params |-> params, Q_loc_estimateX |-> Q_loc_estimateX,
     Q_loc_estimateY |-> Q_loc_estimateY, frame_num |-> frame_num]

\* the filter built again with the new values: nothing stored, frame 0
Rebuilt(attrs, kwargs) ==
    [params |-> [key \in NoiseKeys |->
                    IF key \in DOMAIN kwargs THEN kwargs[key]
                    ELSE attrs.params[key]],
     Q_loc_estimateX |-> <<>>, Q_loc_estimateY |-> <<>>, frame_num |-> 0]

\* for key, val in kwargs.items(): self.__setattr__(key, val)
SetAttrs(attrs, kwargs) ==
    [attrs EXCEPT !.params = [key \in NoiseKeys |->
                                 IF key \in DOMAIN kwargs THEN kwargs[key]
                                 ELSE attrs.params[key]]]

\* Kalman_Filter.update_vals with noise parameters as keywords: attributes
\* are set, and nothing is computed from them.  (Two calls in a row set what
\* one call with the keywords of both sets, so only one is taken.)
UpdateVals ==
    /\ kind \in {"filter", "angle"}
    /\ call.op # "update_vals"
    /\ \E keys \in {{key} : key \in NoiseKeys} \cup {NoiseKeys} : \E val \in 0..1 :
          LET kwargs == [key \in keys |-> val]
              attrs == SetAttrs(Attributes, kwargs)
          IN  /\ params' = attrs.params
              /\ Q_loc_estimateX' = attrs.Q_loc_estimateX
              /\ Q_loc_estimateY' = attrs.Q_loc_estimateY
              /\ frame_num' = attrs.frame_num
    /\ Called("update_vals", NoArray)
    /\ ret' = ReturnedNone
    /\ UNCHANGED <<Q_estimate, P, K, aliased, Q_loc_meas, angleVars>>

KalmanIdle ==
    /\ Construct("idle", 1, 1, <<1, 1>>)
    /\ last_point = Num(0)
    /\ revolutions = 0
    /\ record = <<>>
    /\ readings = <<>>

BoutIdle ==
    /\ arr = <<>>
    /\ framerate = 0
    /\ pc = "idle"
    /\ saccades = <<>>
    /\ new_saccades = <<>>
    /\ detected = <<>>
    /\ saccade_frequency = <<>>
    /\ success = <<>>
    /\ saccading_left = <<>>
    /\ saccading_right = <<>>

\* a Kalman_Filter of one or two objects, or a KalmanAngle, with jerk_std
\* and the measurement noises each zero or not
KalmanInit ==
    \/ \E n \in 1..2, jerk \in 0..1, noise_x \in 0..1, noise_y \in 0..1 :
          /\ Construct("filter", n, jerk, <<noise_x, noise_y>>)
          /\ last_point = Num(0)
          /\ revolutions = 0
          /\ record = <<>>
          /\ readings = <<>>
    \/ \E jerk \in 0..1, noise_x \in 0..1 : ConstructAngle(jerk, noise_x)

(***************************************************************************)
(* Saccade.__init__, on its own: one construction from given arguments.    *)
(* Velocities are integers; the pre-onset window is given by its mean and  *)
(* its standard deviation, the Saccade by its interpolated peak velocity.  *)
(***************************************************************************)
\* the framerates a single Saccade is built at
SaccadeFramerates == {4, 2 * FilterHigh + 4}

\* Saccade(arr, bout, framerate, start, stop, interpolate_velocity=True,
\* baseline_comparison=False, baseline_test=True) with 0 <= start <= stop
\* inside the series
Constructions ==
    [frames : {SeriesFrames},
     framerate : SaccadeFramerates,
     start : 0..(SeriesFrames - 1),
     stop : 0..(SeriesFrames - 1),
     interpolate_velocity : BOOLEAN,
     baseline_comparison : BOOLEAN,
     baseline_test : BOOLEAN,
     peak_velocity : (-MaxPeak)..MaxPeak,
     velo_mean : -1..1,
     velo_std : 0..1]

\* the same call with start and stop left at their defaults, 0 and -1
DefaultConstructions ==
    {[c EXCEPT !.start = 0, !.stop = -1] : c \in Constructions}

NotBuilt == [done |-> FALSE, success |-> "unset", start |-> 0, stop |-> 0,
             exc |-> "none", length |-> 0]

\* a slice bound as Python reads it: counted from the end when negative,
\* clipped to the array
SliceBound(i, n) ==
    IF i < 0 THEN (IF i + n < 0 THEN 0 ELSE i + n)
    ELSE IF i > n THEN n ELSE i

\* len(np.copy(self.original_arr)[self.start:self.stop+1])
SegmentLength(c) ==
    LET low == SliceBound(c.start, c.frames)
        high == SliceBound(c.stop + 1, c.frames)
    IN  IF high > low THEN high - low ELSE 0

\* len(velos_included) for velocity[max(start - 10, 0):start]
BaselineLength(start) ==
    start - (IF start - BaselineFrames > 0 THEN start - BaselineFrames ELSE 0)

\* velo_floor, velo_ceiling = velo_mean - 2 * velo_std, velo_mean + 2 * velo_std
VeloFloor(c) == c.velo_mean - 2 * c.velo_std
VeloCeiling(c) == c.velo_mean + 2 * c.velo_std

\* if self.peak_velocity < 0 and self.peak_velocity > velo_floor: fail
\* elif self.peak_velocity > 0 and self.peak_velocity < velo_ceiling: fail
BaselineRejects(peak, floor, ceiling) ==
    \/ peak < 0 /\ peak > floor
    \/ peak > 0 /\ peak < ceiling

\* self.stop - self.start < 2 or self.duration > 1.5, the duration being
\* (stop - start) / framerate
TooShortOrLong(start, stop, rate) ==
    stop - start < 2 \/ 2 * (stop - start) > 3 * rate

\* the onsets and ends baseline_comparison can move the window to
Refined(c) ==
    {w \in ((c.start - 1)..(c.start + 1)) \X ((c.stop - 1)..(c.stop + 1)) :
        0 <= w[1] /\ w[2] <= c.frames - 1}

\* Saccade.__init__.  self.start_angle = self.arr[0] raises IndexError on an
\* empty segment, before any velocity is taken.  The window is refined and checked for its length only under
\* baseline_comparison; the baseline test runs last.
SaccadeInit ==
    /\ ~built.done
    /\ IF SegmentLength(ctor) = 0
       THEN built' = [done |-> TRUE, success |-> "unset",
                      start |-> ctor.start, stop |-> ctor.stop,
                      exc |-> "IndexError", length |-> 0]
       ELSE IF ~ctor.interpolate_velocity
       THEN built' = [done |-> TRUE, success |-> "unset",
                      start |-> ctor.start, stop |-> ctor.stop,
                      exc |-> "none", length |-> SegmentLength(ctor)]
       ELSE IF BaselineLength(ctor.start) = 0
       THEN built' = [done |-> TRUE, success |-> "false",
                      start |-> ctor.start, stop |-> ctor.stop,
                      exc |-> "none", length |-> SegmentLength(ctor)]
       ELSE \E w \in IF ctor.baseline_comparison THEN Refined(ctor)
                      ELSE {<<ctor.start, ctor.stop>>} :
              LET compared == ~(/\ ctor.baseline_comparison
                                /\ TooShortOrLong(w[1], w[2], ctor.framerate))
                  tested == ~(/\ ctor.baseline_test
                              /\ BaselineRejects(ctor.peak_velocity,
                                                  VeloFloor(ctor),
                                                  VeloCeiling(ctor)))
              IN  built' = [done |-> TRUE,
                            success |-> IF compared /\ tested THEN "true"
                                        ELSE "false",
                            start |-> w[1], stop |-> w[2],
                            exc |-> "none", length |-> SegmentLength(ctor)]
    /\ UNCHANGED <<ctor, query, boutVars, kalmanVars, thresholdVars, callVars>>

\* an argument of query: a number, or 'start' or 'stop' with an offset.
\* Offsets are whole frames, delta / framerate seconds.
QueryArgs == [kind : {"number", "start", "stop"}, delta : (-MaxOffset)..MaxOffset]

NoQuery == [done |-> TRUE, start |-> [kind |-> "number", delta |-> 0],
            stop |-> [kind |-> "number", delta |-> 0], frames |-> {}]

\* the time the argument stands for, in frames after the onset: self.time
\* is (frame - self.start) / framerate.  A number is taken as it is; a
\* string gives self.time[self.start] or self.time[self.stop] plus its delta.
TimeOf(arg, sacc) ==
    IF arg.kind = "number" THEN arg.delta
    ELSE IF arg.kind = "start" THEN 0 + arg.delta
    ELSE (sacc.stop - sacc.start) + arg.delta

\* include = (time >= start) * (time < stop), as frames of the series
Included(sacc, frames, start, stop) ==
    {k \in 0..(frames - 1) :
        /\ k - sacc.start >= TimeOf(start, sacc)
        /\ k - sacc.start < TimeOf(stop, sacc)}

\* Saccade.query(time_var='time', start=..., stop=...) on a Saccade built
\* without an exception
Query ==
    /\ built.done /\ built.exc = "none"
    /\ ~query.done
    /\ query' = [query EXCEPT
                    !.done = TRUE,
                    !.frames = Included(built, ctor.frames, query.start,
                                        query.stop)]
    /\ UNCHANGED <<ctor, built, boutVars, kalmanVars, thresholdVars, callVars>>

SaccadeIdle ==
    /\ ctor = [frames |-> 0]
    /\ built = NotBuilt
    /\ query = NoQuery

\* a Saccade to be built with the default flags, and a query to make on it
QueryInit ==
    /\ ctor \in {c \in Constructions :
                    /\ c.start <= c.stop
                    /\ c.interpolate_velocity
                    /\ ~c.baseline_comparison
                    /\ c.baseline_test
                    /\ c.peak_velocity = MaxPeak
                    /\ c.velo_mean = 0
                    /\ c.velo_std = 1}
    /\ built = NotBuilt
    /\ query \in [done : {FALSE}, start : QueryArgs, stop : QueryArgs,
                   frames : {{}}]

SaccadeArgs ==
    /\ ctor \in {c \in Constructions : c.start <= c.stop}
                \cup DefaultConstructions
    /\ built = NotBuilt
    /\ query = NoQuery

(***************************************************************************)
(* Bout.process_saccades with speed_noise_method, kalman_method and        *)
(* acceleration_method all False: runs of speed above threshold, from the  *)
(* mask `include` on.  velocity[0] is the 0 put in front by np.append, so  *)
(* include[0] is False.                                                    *)
(***************************************************************************)
Masks == {m \in [0..(MaskFrames - 1) -> BOOLEAN] : ~m[0]}

RECURSIVE Where(_)
\* np.where(...)[0]: the indices of a set, in increasing order
Where(S) ==
    IF S = {} THEN <<>>
    ELSE LET low == CHOOSE x \in S : \A y \in S : x <= y
         IN  <<low>> \o Where(S \ {low})

\* diffs = np.append([0], include[1:] - include[:-1]); np.where(diffs > 0)
RisingEdges(m) == Where({i \in DOMAIN m \ {0} : m[i] /\ ~m[i - 1]})
\* np.where(diffs < 0)
FallingEdges(m) == Where({i \in DOMAIN m \ {0} : ~m[i] /\ m[i - 1]})

\* while stops[0] < starts[0]: stops = stops[1:] runs off the end of stops
\* (IndexError) when every stop is before the first start
LeadingRaises(sts, sps) == \A j \in 1..Len(sps) : sps[j] < sts[1]

\* stops after: if stops[0] < starts[0]: while stops[0] < starts[0]: drop it
TrimmedStops(sts, sps) ==
    LET NotBefore(x) == x >= sts[1]
    IN  SelectSeq(sps, NotBefore)

RECURSIVE DropTrailing(_, _)
\* while starts[-1] < stops[-1]: starts = starts[:-1]
DropTrailing(sts, last) ==
    IF sts[Len(sts)] < last
    THEN DropTrailing(SubSeq(sts, 1, Len(sts) - 1), last)
    ELSE sts

\* starts after: if starts[-1] > stops[-1]: while starts[-1] < stops[-1]: ...
TrimmedStarts(sts, sps) ==
    IF sts[Len(sts)] > sps[Len(sps)]
    THEN DropTrailing(sts, sps[Len(sps)])
    ELSE sts

RECURSIVE NextStop(_, _)
\* while stop < start and len(stops) > 1: stops = stops[1:]; stop = stops[0]
NextStop(sps, start) ==
    IF sps[1] < start /\ Len(sps) > 1 THEN NextStop(Tail(sps), start) ELSE sps

\* lines 4400-4406: the edges of the mask; self.saccades = []
Edges ==
    /\ pc = "mask"
    /\ starts' = RisingEdges(include)
    /\ stops' = FallingEdges(include)
    /\ saccades' = <<>>
    /\ pc' = IF starts' # <<>> /\ stops' # <<>> THEN "trim" ELSE "paired"
    /\ UNCHANGED <<arr, framerate, new_saccades, detected, saccade_frequency,
                   success, saccading_left, saccading_right>>
    /\ UNCHANGED <<include, candidate, kalmanVars, saccadeVars, callVars>>

\* lines 4408-4414: the stops before the first start and the starts after
\* the last stop
Trim ==
    /\ pc = "trim"
    /\ IF stops[1] < starts[1] /\ LeadingRaises(starts, stops)
       THEN pc' = "raised" /\ UNCHANGED <<starts, stops>>
       ELSE /\ stops' = TrimmedStops(starts, stops)
            /\ starts' = TrimmedStarts(starts, stops')
            /\ pc' = "pair"
    /\ UNCHANGED <<arr, framerate, saccades, new_saccades, detected,
                   saccade_frequency, success, saccading_left, saccading_right>>
    /\ UNCHANGED <<include, candidate, kalmanVars, saccadeVars, callVars>>

\* one pass of: while len(starts) > 0 and len(stops) > 0.  A pair with
\* stop > start > 10 goes on to line 4427, which reads the name
\* relative_start_velo; no such name is bound, so the pass ends there with
\* NameError and nothing is appended to self.saccades.
Pair ==
    /\ pc = "pair"
    /\ starts # <<>> /\ stops # <<>>
    /\ LET start == starts[1]
           left == NextStop(stops, start)
           stop == left[1]
       IN  /\ starts' = Tail(starts)
           /\ stops' = left
           /\ IF stop > start /\ start > LeadFrames
              THEN candidate' = <<start, stop>> /\ pc' = "raised"
              ELSE UNCHANGED <<candidate, pc>>
    /\ UNCHANGED <<arr, framerate, saccades, new_saccades, detected,
                   saccade_frequency, success, saccading_left, saccading_right>>
    /\ UNCHANGED <<include, kalmanVars, saccadeVars, callVars>>

\* the loop ends
Paired ==
    /\ pc = "pair"
    /\ starts = <<>> \/ stops = <<>>
    /\ pc' = "paired"
    /\ UNCHANGED <<arr, framerate, saccades, new_saccades, detected,
                   saccade_frequency, success, saccading_left, saccading_right>>
    /\ UNCHANGED <<thresholdVars, kalmanVars, saccadeVars, callVars>>

ThresholdIdle ==
    /\ include = <<>>
    /\ starts = <<>>
    /\ stops = <<>>
    /\ candidate = <<>>

ThresholdInit ==
    /\ include \in Masks
    /\ starts = <<>>
    /\ stops = <<>>
    /\ candidate = <<>>
    /\ arr = <<>>
    /\ framerate = 0
    /\ pc = "mask"
    /\ saccades = <<>>
    /\ new_saccades = <<>>
    /\ detected = <<>>
    /\ saccade_frequency = <<>>
    /\ success = <<>>
    /\ saccading_left = <<>>
    /\ saccading_right = <<>>

(***************************************************************************)
(* Configuration: Bout.__init__ and butterworth_filter, each from its      *)
(* arguments.  Frequencies are whole numbers of Hz; high = np.inf is left  *)
(* out.                                                                    *)
(***************************************************************************)
\* the frequency bounds a caller can pass to butterworth_filter
MaxFrequency == 3

\* 1. / (time[1] - time[0]) for a time series that runs forward, at one of
\* the rates of a trial, or backward
BoutFramerates == Framerates \cup {-f : f \in Framerates}

\* butterworth_filter(vals, low, high, sample_rate)
FilterCalls ==
    [low : -1..MaxFrequency,
     high : -1..MaxFrequency,
     sample_rate : {-4, 4, 2 * FilterHigh + 4},
     done : {FALSE},
     copied : {FALSE},
     exc : {"none"}]

NoFilterCall ==
    [low |-> 0, high |-> 0, sample_rate |-> 0, done |-> TRUE, copied |-> FALSE,
     exc |-> "none"]

\* assert low >= 0 and high > 0
BoundsAsserted(low, high) == low >= 0 /\ high > 0

\* scipy.signal.butter(5, Wn, fs=sample_rate, btype=...) takes critical
\* frequencies with 0 < Wn < fs / 2, increasing for a band, and raises
\* ValueError otherwise
ButterAccepts(low, high, rate) ==
    IF low > 0 THEN 0 < low /\ low < high /\ 2 * high < rate
    ELSE 0 < high /\ 2 * high < rate

\* butterworth_filter: the assert, then np.copy and np.unwrap, then the
\* design of the filter
ButterworthFilter ==
    /\ ~filt.done
    /\ filt' = IF ~BoundsAsserted(filt.low, filt.high)
               THEN [filt EXCEPT !.done = TRUE, !.exc = "AssertionError"]
               ELSE IF ~ButterAccepts(filt.low, filt.high, filt.sample_rate)
               THEN [filt EXCEPT !.done = TRUE, !.copied = TRUE,
                                 !.exc = "ValueError"]
               ELSE [filt EXCEPT !.done = TRUE, !.copied = TRUE]
    /\ UNCHANGED <<boutVars, kalmanVars, saccadeVars, thresholdVars, seriesVars,
                   track, strategy>>

\* Bout.__init__: arr and time are stored and the framerate is taken from
\* the first two times, with no test on either
BoutNew ==
    /\ pc = "unbuilt"
    /\ arr' \in ShortTrials
    /\ framerate' \in BoutFramerates
    /\ pc' = "new"
    /\ UNCHANGED <<saccades, new_saccades, detected, saccade_frequency,
                   success, saccading_left, saccading_right>>
    /\ UNCHANGED <<kalmanVars, saccadeVars, thresholdVars, callVars>>

(***************************************************************************)
(* The arrays of process_saccades (peak-finder path), Saccade.__init__ and *)
(* butterworth_filter.  A call is followed statement by statement; an      *)
(* array is known by what it was computed from: the caller's series, then  *)
(* the operations applied.  A statement makes a new array, binds a name to *)
(* an array that exists (a view or the same object), or writes into the    *)
(* array its name is bound to.                                             *)
(***************************************************************************)
Stmt(dst, op, src) == [dst |-> dst, op |-> op, src |-> src]

\* np.copy alone returns a new array; every other function returns a view
OnlyCopyAllocates(op) == op = "copy"

\* np.copy, np.unwrap, np.gradient, np.arange, scipy.signal.sosfilt and the
\* binary operators return a new array
Allocates(op) ==
    op \in {"copy", "unwrap", "gradient", "arange", "sosfilt", "arith"}

\* -=, /= and *= write into the array on their left
InPlace(op) == op \in {"isub", "idiv", "imul"}

\* butterworth_filter(vals, ...) on the array named src, its bounds valid
FilterBody(src) ==
    <<Stmt("filter.vals", "copy", src),
      Stmt("filter.vals", "unwrap", "filter.vals"),
      Stmt("filter.shifted", "arith", "filter.vals"),
      Stmt("filter.vals_smoothed", "sosfilt", "filter.shifted"),
      Stmt("filter.vals_smoothed", "arith", "filter.vals_smoothed")>>

\* Saccade.__init__(arr, ...) on the array named src
SaccadeBody(src) ==
    <<Stmt("saccade.original_arr", "unwrap", src),
      Stmt("saccade.arr", "copy", "saccade.original_arr"),
      Stmt("saccade.time", "arange", "saccade.original_arr"),
      Stmt("saccade.time", "isub", "saccade.time"),
      Stmt("saccade.time", "idiv", "saccade.time"),
      Stmt("saccade.arr_relative", "arith", "saccade.original_arr"),
      Stmt("saccade.velocity", "gradient", "saccade.original_arr"),
      Stmt("saccade.velocity", "imul", "saccade.velocity"),
      Stmt("saccade.acceleration", "gradient", "saccade.velocity"),
      Stmt("saccade.acceleration", "imul", "saccade.acceleration"),
      Stmt("saccade.relative_time", "copy", "saccade.time"),
      Stmt("saccade.relative_time", "isub", "saccade.relative_time")>>

\* one pass of the loop over zip(starts, stops)
BuildBody ==
    SaccadeBody("caller.arr")
    \o <<Stmt("velos", "gradient", "saccade.arr"),
          Stmt("velos", "arith", "velos")>>

RECURSIVE Repeated(_, _)
Repeated(body, k) == IF k = 0 THEN <<>> ELSE body \o Repeated(body, k - 1)

\* process_saccades with the default flags, on a Bout that has k candidates
ProcessBody(k) ==
    <<Stmt("arr", "view", "caller.arr"),
      Stmt("arr", "copy", "arr"),
      Stmt("arr", "unwrap", "arr")>>
    \o FilterBody("arr")
    \o <<Stmt("vals_filtered", "view", "filter.vals_smoothed"),
          Stmt("reversed", "view", "arr")>>
    \o FilterBody("reversed")
    \o <<Stmt("vals_filtered_rev", "view", "filter.vals_smoothed"),
          Stmt("vals_filtered", "arith", "vals_filtered"),
          Stmt("vals_filtered", "unwrap", "vals_filtered"),
          Stmt("velocity", "gradient", "vals_filtered"),
          Stmt("velocity", "imul", "velocity")>>
    \o Repeated(BuildBody, k)

Programs ==
    {[fn |-> "process_saccades", built |-> k] : k \in 0..MaxBuilt}
    \cup {[fn |-> "Saccade", built |-> 1], [fn |-> "butterworth_filter", built |-> 0]}

NoProgram == [fn |-> "none", built |-> 0]

Body(p) ==
    IF p.fn = "process_saccades" THEN ProcessBody(p.built)
    ELSE IF p.fn = "Saccade" THEN SaccadeBody("caller.arr")
    ELSE IF p.fn = "butterworth_filter" THEN FilterBody("caller.arr")
    ELSE <<>>

Names ==
    {"caller.arr", "caller.time"}
    \cup UNION {{st.dst, st.src} : st \in Range(ProcessBody(1))}

\* the statement about to run
Current == Body(prog)[line]

\* a statement whose function returns a new array
Allocate ==
    /\ line \in 1..Len(Body(prog))
    /\ Allocates(Current.op)
    /\ heap' = Append(heap, IF Current.op = "arange" THEN <<"arange">>
                            ELSE Append(heap[names[Current.src]], Current.op))
    /\ names' = [names EXCEPT ![Current.dst] = Len(heap) + 1]
    /\ line' = line + 1
    /\ UNCHANGED <<prog, filt, track, strategy, boutVars, kalmanVars,
                   saccadeVars, thresholdVars>>

\* a statement that binds a name to an array that exists
Alias ==
    /\ line \in 1..Len(Body(prog))
    /\ ~Allocates(Current.op) /\ ~InPlace(Current.op)
    /\ names' = [names EXCEPT ![Current.dst] = names[Current.src]]
    /\ line' = line + 1
    /\ UNCHANGED <<heap, prog, filt, track, strategy, boutVars, kalmanVars,
                   saccadeVars, thresholdVars>>

\* an augmented assignment: the array the name is bound to is written
WriteInPlace ==
    /\ line \in 1..Len(Body(prog))
    /\ InPlace(Current.op)
    /\ heap' = [heap EXCEPT ![names[Current.dst]] = Append(@, Current.op)]
    /\ line' = line + 1
    /\ UNCHANGED <<names, prog, filt, track, strategy, boutVars, kalmanVars,
                   saccadeVars, thresholdVars>>

SeriesIdle ==
    /\ heap = <<>>
    /\ names = <<>>
    /\ prog = NoProgram
    /\ line = 0

\* the caller holds its heading and time series; the call begins
SeriesInit ==
    /\ heap = <<<<"arr">>, <<"time">>>>
    /\ names = [n \in Names |-> IF n = "caller.arr" THEN 1
                                ELSE IF n = "caller.time" THEN 2 ELSE 0]
    /\ prog \in Programs
    /\ line = 1

(***************************************************************************)
(* Kalman_Filter(1, ...) with jerk = 0 and jerk_std > 0, followed by the   *)
(* value of its position estimate Q_estimate[:2, 0] through                *)
(* add_starting_points, get_prediction and the first add_measurement.      *)
(* x and y never mix in A, P and K, so each position has its own gain      *)
(* P / (P + noise) with P > 0: the gain is 1 when the noise is 0 and lies  *)
(* strictly between 0 and 1 otherwise.                                     *)
(***************************************************************************)
\* the coordinates a caller passes, two units apart
Coordinates == {2 * i : i \in 0..MaxCoordinate}

Tracks ==
    [stage : {"new"},
     start : Coordinates \X Coordinates,
     meas : Coordinates \X Coordinates,
     noise : {0, 1} \X {0, 1},
     est : {<<0, 0>>},
     before : {<<0, 0>>}]

NoTrack == [stage |-> "none", start |-> <<0, 0>>, meas |-> <<0, 0>>,
            noise |-> <<0, 0>>, est |-> <<0, 0>>, before |-> <<0, 0>>]

\* self.Q_loc_meas - self.C @ self.Q_estimate for num_objects = 1: the
\* (1, 2) measurement less the (2, 1) estimate is the (2, 2) array whose
\* entry [i, j] is meas[j] - est[i]; column 0 goes to the first track
Innovation(meas, est) == <<meas[1] - est[1], meas[1] - est[2]>>

\* q + K * d for the position gain K of a coordinate with the given noise
Gained(q, d, noise) ==
    IF noise = 0 THEN {q + d}
    ELSE IF d = 0 THEN {q}
    ELSE IF d > 0 THEN (q + 1)..(q + d - 1)
    ELSE (q + d + 1)..(q - 1)

\* add_starting_points: Q_estimate.fill(0); Q_estimate[:2] = points.T
TrackStart ==
    /\ track.stage = "new"
    /\ track' = [track EXCEPT !.stage = "started", !.est = track.start,
                              !.before = track.start]
    /\ UNCHANGED <<filt, seriesVars, strategy, boutVars, kalmanVars,
                   saccadeVars, thresholdVars>>

\* get_prediction after add_starting_points: velocity and acceleration are
\* 0 and jerk is 0, so A @ Q_estimate leaves the position where it is
TrackPredict ==
    /\ track.stage = "started"
    /\ track' = [track EXCEPT !.stage = "predicted", !.before = track.est]
    /\ UNCHANGED <<filt, seriesVars, strategy, boutVars, kalmanVars,
                   saccadeVars, thresholdVars>>

\* add_measurement: Q_estimate + K @ (Q_loc_meas - C @ Q_estimate)
TrackUpdate ==
    /\ track.stage = "predicted"
    /\ LET d == Innovation(track.meas, track.est)
       IN  \E x \in Gained(track.est[1], d[1], track.noise[1]) :
           \E y \in Gained(track.est[2], d[2], track.noise[2]) :
              track' = [track EXCEPT !.stage = "updated", !.est = <<x, y>>,
                                    !.before = track.est]
    /\ UNCHANGED <<filt, seriesVars, strategy, boutVars, kalmanVars,
                   saccadeVars, thresholdVars>>

(***************************************************************************)
(* Bout.process_saccades: the choice of the detection strategy.  The flags *)
(* are tested for truth, so any value can be passed.                       *)
(***************************************************************************)
FlagValues == {"False", "True", "None", "0", "1"}

\* bool(v)
Truthy(v) == v \in {"True", "1"}

StrategyFlags ==
    [speed_noise_method : FlagValues, kalman_method : FlagValues,
     acceleration_method : FlagValues]

\* speed_noise_method=True, acceleration_method=False, kalman_method=False
DefaultFlags ==
    [speed_noise_method |-> "True", kalman_method |-> "False",
     acceleration_method |-> "False"]

NoStrategy == [flags |-> DefaultFlags, at |-> "none", ran |-> <<>>]

\* every test of the chain were an `if` of its own: after a branch the next
\* test is made
FallsThrough(test) ==
    IF test = "if speed_noise_method" THEN "elif kalman_method"
    ELSE IF test = "elif kalman_method" THEN "elif acceleration_method"
    ELSE IF test = "elif acceleration_method" THEN "else"
    ELSE "end"

\* where control goes when the branch taken at a test is over: the chain is
\* if / elif / elif / else, so past all of it
AfterBranch(test) == "end"

\* the call after the test `at` on a flag: its branch is entered, or the
\* next test is made
Tested(at, flag, branch, next) ==
    IF Truthy(strategy.flags[flag])
    THEN [strategy EXCEPT !.ran = Append(@, branch), !.at = AfterBranch(at)]
    ELSE [strategy EXCEPT !.at = next]

\* if speed_noise_method:
TestSpeedNoise ==
    /\ strategy.at = "if speed_noise_method"
    /\ strategy' = Tested("if speed_noise_method", "speed_noise_method",
                          "peak_finder", "elif kalman_method")
    /\ UNCHANGED <<filt, seriesVars, track, boutVars, kalmanVars, saccadeVars,
                   thresholdVars>>

\* elif kalman_method:
TestKalman ==
    /\ strategy.at = "elif kalman_method"
    /\ strategy' = Tested("elif kalman_method", "kalman_method", "kalman",
                          "elif acceleration_method")
    /\ UNCHANGED <<filt, seriesVars, track, boutVars, kalmanVars, saccadeVars,
                   thresholdVars>>

\* elif acceleration_method:
TestAcceleration ==
    /\ strategy.at = "elif acceleration_method"
    /\ strategy' = Tested("elif acceleration_method", "acceleration_method",
                          "acceleration", "else")
    /\ UNCHANGED <<filt, seriesVars, track, boutVars, kalmanVars, saccadeVars,
                   thresholdVars>>

\* else: the threshold-run path
ElseThresholdRun ==
    /\ strategy.at = "else"
    /\ strategy' = [strategy EXCEPT !.ran = Append(@, "threshold_run"),
                                    !.at = AfterBranch("else")]
    /\ UNCHANGED <<filt, seriesVars, track, boutVars, kalmanVars, saccadeVars,
                   thresholdVars>>

CallIdle ==
    /\ filt = NoFilterCall
    /\ SeriesIdle
    /\ track = NoTrack
    /\ strategy = NoStrategy

ConfigInit ==
    /\ filt \in FilterCalls
    /\ arr = <<>>
    /\ framerate = 0
    /\ pc = "unbuilt"
    /\ saccades = <<>>
    /\ new_saccades = <<>>
    /\ detected = <<>>
    /\ saccade_frequency = <<>>
    /\ success = <<>>
    /\ saccading_left = <<>>
    /\ saccading_right = <<>>

\* one Bout taken through process_saccades and get_stats
Init == BoutInit /\ KalmanIdle /\ SaccadeIdle /\ ThresholdIdle /\ CallIdle

Next ==
    \/ FilterRaises
    \/ Detect
    \/ ResolveStep
    \/ ResolveDone
    \/ GetStats

Spec == Init /\ [][Next]_vars

\* the same, with the while loop of process_saccades running on: a pass that
\* can be made is made, and the statement after the loop is reached
SpecLoop ==
    Init /\ [][Next]_vars /\ WF_vars(ResolveStep) /\ WF_vars(ResolveDone)

\* process_saccades on a trial of ClusterFrames frames, from the point where
\* the Saccades of at most ClusterSize candidates have been built and the
\* overlap loop is about to start, then get_stats
InitCluster ==
    /\ arr \in ClusterTrials
    /\ framerate = 2 * FilterHigh + 4
    /\ pc = "resolve"
    /\ \E cands \in CandidateLists(ClusterFrames, PeakDistance(framerate),
                                   ClusterSize) :
          /\ success = Success(arr, cands, 1..Len(cands))
          /\ saccades = Built(arr, cands, 1..Len(cands))
          /\ detected = saccades
    /\ new_saccades = <<>>
    /\ saccade_frequency = <<>>
    /\ saccading_left = <<>>
    /\ saccading_right = <<>>
    /\ KalmanIdle /\ SaccadeIdle /\ ThresholdIdle /\ CallIdle

NextCluster ==
    \/ ResolveStep
    \/ ResolveDone
    \/ GetStats

SpecCluster == InitCluster /\ [][NextCluster]_vars

\* one filter and the calls made on it
InitKalman ==
    BoutIdle /\ KalmanInit /\ SaccadeIdle /\ ThresholdIdle /\ CallIdle

NextKalman ==
    \/ GetPrediction
    \/ AddStartingPoints
    \/ AddMeasurement
    \/ Store
    \/ Predict
    \/ UpdateVals

SpecKalman == InitKalman /\ [][NextKalman]_vars

\* one Saccade and its construction
InitSaccade ==
    BoutIdle /\ KalmanIdle /\ SaccadeArgs /\ ThresholdIdle /\ CallIdle

NextSaccade == SaccadeInit

SpecSaccade == InitSaccade /\ [][NextSaccade]_vars

\* one Saccade built and queried once
InitQuery == BoutIdle /\ KalmanIdle /\ QueryInit /\ ThresholdIdle /\ CallIdle

NextQuery ==
    \/ SaccadeInit
    \/ Query

SpecQuery == InitQuery /\ [][NextQuery]_vars

\* one mask taken through the path of runs above threshold
InitThreshold == ThresholdInit /\ KalmanIdle /\ SaccadeIdle /\ CallIdle

NextThreshold ==
    \/ Edges
    \/ Trim
    \/ Pair
    \/ Paired

SpecThreshold == InitThreshold /\ [][NextThreshold]_vars

\* process_saccades on either path, then get_stats
InitPaths == Init \/ InitThreshold

NextPaths ==
    \/ FilterRaises
    \/ Detect
    \/ ResolveStep
    \/ ResolveDone
    \/ GetStats
    \/ Edges
    \/ Trim
    \/ Pair
    \/ Paired

SpecPaths == InitPaths /\ [][NextPaths]_vars

\* one Bout built and one call of butterworth_filter, up to the filter
InitConfig ==
    /\ ConfigInit /\ KalmanIdle /\ SaccadeIdle /\ ThresholdIdle /\ SeriesIdle
    /\ track = NoTrack
    /\ strategy = NoStrategy

NextConfig ==
    \/ BoutNew
    \/ FilterRaises
    \/ ButterworthFilter

SpecConfig == InitConfig /\ [][NextConfig]_vars

\* one call and the arrays it makes, binds and writes
InitSeries ==
    /\ SeriesInit
    /\ filt = NoFilterCall
    /\ track = NoTrack
    /\ strategy = NoStrategy
    /\ BoutIdle /\ KalmanIdle /\ SaccadeIdle /\ ThresholdIdle

NextSeries ==
    \/ Allocate
    \/ Alias
    \/ WriteInPlace

SpecSeries == InitSeries /\ [][NextSeries]_vars

\* one filter given its starting point, then one measurement
InitTrack ==
    /\ track \in Tracks
    /\ strategy = NoStrategy
    /\ filt = NoFilterCall
    /\ SeriesIdle
    /\ BoutIdle /\ KalmanIdle /\ SaccadeIdle /\ ThresholdIdle

NextTrack ==
    \/ TrackStart
    \/ TrackPredict
    \/ TrackUpdate

SpecTrack == InitTrack /\ [][NextTrack]_vars

\* one call of process_saccades, at its first strategy test
InitStrategy ==
    /\ strategy \in [flags : StrategyFlags, at : {"if speed_noise_method"},
                      ran : {<<>>}]
    /\ filt = NoFilterCall
    /\ SeriesIdle
    /\ track = NoTrack
    /\ BoutIdle /\ KalmanIdle /\ SaccadeIdle /\ ThresholdIdle

NextStrategy ==
    \/ TestSpeedNoise
    \/ TestKalman
    \/ TestAcceleration
    \/ ElseThresholdRun

SpecStrategy == InitStrategy /\ [][NextStrategy]_vars

(***************************************************************************)
(* Properties of process_saccades and get_stats.                           *)
(***************************************************************************)
\* process_saccades has returned
Finished == pc \in {"done", "stats"}

\* the closed frame ranges [start, stop] of s and t share no frame
Disjoint(s, t) == s.stop < t.start \/ t.stop < s.start

StrictlyInside(inner, outer) ==
    outer.start < inner.start /\ inner.stop < outer.stop

\* the velocity samples of a trial: the change of heading from each frame to
\* the next, times the framerate (every np.gradient sample, one-sided or
\* central, is one of these or the mean of two)
Diffs(a) == {a[i] - a[i - 1] : i \in 1..(NumFrames(a) - 1)}

\* C1: after process_saccades on the peak-finder path, the retained Saccades
\* have pairwise disjoint closed frame ranges [start, stop], for every list
\* of candidates the detector can emit.
C1_RetainedDisjoint ==
    Finished =>
        \A i \in 1..Len(saccades) : \A j \in (i + 1)..Len(saccades) :
            Disjoint(saccades[i], saccades[j])

\* C2: after process_saccades, Bout.saccades is in ascending order of start:
\* consecutive retained Saccades s, t have s.start <= t.start.
C2_SortedByStart ==
    Finished =>
        \A i \in 1..(Len(saccades) - 1) :
            saccades[i].start <= saccades[i + 1].start

\* C2, its case: two Saccades are retained, out of a working set that was
\* not in order of start and lost a member to overlap resolution
C2_Witness ==
    /\ pc = "done"
    /\ Len(saccades) >= 2
    /\ Len(detected) > Len(saccades)
    /\ \E i \in 1..(Len(detected) - 1) :
           detected[i].start > detected[i + 1].start

\* C3: overlap resolution is idempotent: the loop run on the list it has
\* just produced gives the same list, same members in the same order.
C3_ResolutionIdempotent ==
    Finished => Resolve(saccades, <<>>) = saccades

\* C4: a working set of exactly two candidates, one strictly inside the
\* other, in either order, resolves to the outer, longer one and nothing else.
C4_NestedPairKeepsOuter ==
    (Finished /\ Len(detected) = 2) =>
        \A i, j \in 1..2 :
            StrictlyInside(detected[i], detected[j]) =>
                saccades = <<detected[j]>>

\* C4, its case: the inner candidate comes first, the outer one second
C4_Witness ==
    /\ pc = "done"
    /\ Len(detected) = 2
    /\ StrictlyInside(detected[1], detected[2])
    /\ saccades = <<detected[2]>>

StoreStep == calls' = calls + 1 /\ call'.op = "store"

\* C6: when two successive readings given to store differ by more than pi
\* the revolution count changes by exactly one, down for an upward jump
\* and up for a downward jump, and it is unchanged when they differ by pi
\* or less.
C6_JumpChangesRevolutions ==
    [][(/\ StoreStep
        /\ readings # <<>>
        /\ ~readings[Len(readings)].nan
        /\ ~call'.arg.data[1][1].nan)
       => LET before == readings[Len(readings)].v
              after == call'.arg.data[1][1].v
          IN  /\ after - before > GridPi => revolutions' = revolutions - 1
              /\ before - after > GridPi => revolutions' = revolutions + 1
              /\ Abs(after - before) <= GridPi => revolutions' = revolutions
      ]_vars

\* C7: when store is given NaN after an earlier reading, the value appended
\* to the record and handed to the filter is the previous unwrapped value,
\* and last_point and revolutions are unchanged.
C7_NaNTakesLastKnown ==
    [][(StoreStep /\ call'.arg.data[1][1].nan /\ record # <<>>)
       => /\ record'[Len(record')] = record[Len(record)]
          /\ Q_loc_meas'.data[1][1] = record[Len(record)]
          /\ last_point' = last_point
          /\ revolutions' = revolutions
      ]_vars

\* C8: after a call of get_prediction or KalmanAngle.predict whose gain
\* computation failed, the call has returned, raising nothing, and what it
\* returned is NaN.
C8_GainFailureReturnsNaN ==
    (call.op \in {"get_prediction", "predict"} /\ Singular)
    => /\ ret.exc = "none"
       /\ ret.data # <<>>
       /\ \A i \in DOMAIN ret.data : ret.data[i] = "nan"

\* C9: add_measurement and add_starting_points, called with an array whose
\* shape is not (num_objects, 2), fail with the shape assertion and leave
\* Q_estimate, P, the stored estimates and frame_num as they were.
C9_WrongShapeRejected ==
    [][(/\ calls' = calls + 1
        /\ call'.op \in {"add_measurement", "add_starting_points"}
        /\ call'.arg.shape # <<num_objects, 2>>)
       => /\ ret'.exc = "AssertionError"
          /\ Q_estimate' = Q_estimate
          /\ P' = P
          /\ Q_loc_estimateX' = Q_loc_estimateX
          /\ frame_num' = frame_num
      ]_vars

\* a filter of two objects that already holds a frame has refused a
\* measurement of one row, which numpy would have broadcast
C9_Witness ==
    /\ call.op = "add_measurement"
    /\ num_objects = 2
    /\ call.arg.shape = <<1, 2>>
    /\ frame_num > 0
    /\ ret.exc = "AssertionError"

\* C10: for readings that are all angles of (-pi, pi], wrapping each value
\* store put in the record, by the rule of predict, gives the reading back
\* modulo 2 pi.
C10_UnwrapThenWrap ==
    (kind = "angle" /\ \A i \in DOMAIN readings : ~readings[i].nan)
    => \A i \in DOMAIN record :
          /\ ~record[i].nan
          /\ (WrapAngle(record[i].v) - readings[i].v) % (2 * GridPi) = 0

\* a record whose last value was moved by a revolution
C10_Witness ==
    /\ kind = "angle"
    /\ Len(record) >= 2
    /\ \A i \in DOMAIN readings : ~readings[i].nan
    /\ revolutions # 0
    /\ record[Len(record)] # readings[Len(readings)]

\* C11: every defined value KalmanAngle.predict returns lies in (-pi, pi],
\* whatever the unwrapped estimate and the revolution count.
C11_PredictInHalfOpenTurn ==
    (call.op = "predict" /\ ret.exc = "none" /\ ret.data = <<"num">>)
    => -GridPi < ret.v /\ ret.v <= GridPi

\* predict has returned pi itself, after the readings crossed the seam
C11_Witness ==
    /\ call.op = "predict"
    /\ ret.exc = "none"
    /\ ret.data = <<"num">>
    /\ revolutions # 0
    /\ ret.v = GridPi

\* C12: update_vals replacing noise parameters leaves every stored estimate
\* (Q_loc_estimateX and Q_loc_estimateY) and frame_num as they were.
C12_UpdateValsKeepsPast ==
    [][(calls' = calls + 1 /\ call'.op = "update_vals")
       => /\ Q_loc_estimateX' = Q_loc_estimateX
          /\ Q_loc_estimateY' = Q_loc_estimateY
          /\ frame_num' = frame_num
      ]_vars

\* update_vals has replaced jerk_std on a filter that holds stored frames
C12_Witness ==
    /\ call.op = "update_vals"
    /\ frame_num > 0
    /\ Q_loc_estimateX # <<>>
    /\ params["jerk_std"] # Ex

\* C13: every predict or update step after update_vals uses covariances Ex
\* and Ez derived from the current jerk_std and measurement noises.
C13_NewNoiseInForce ==
    (call.op \in {"get_prediction", "predict", "add_measurement", "store"})
    => /\ Ex = params["jerk_std"]
       /\ Ez = <<params["measurement_noise_x"], params["measurement_noise_y"]>>

(***************************************************************************)
(* Properties of Saccade.__init__, over SpecSaccade.                       *)
(***************************************************************************)
\* C14: with baseline_test enabled a Saccade keeps success = True only if
\* its peak velocity is strictly outside the closed interval from floor to
\* ceiling; a peak on a bound or inside makes it invalid.
C14_ValidOnlyStrictlyOutside ==
    (built.done /\ ctor.baseline_test /\ built.success = "true")
    => \/ ctor.peak_velocity < VeloFloor(ctor)
       \/ ctor.peak_velocity > VeloCeiling(ctor)

\* C15: a Saccade whose onset is below frame 10, so that fewer than 10
\* frames come before it, ends construction with success = False.
C15_ShortBaselineInvalid ==
    (/\ built.done
     /\ ctor.interpolate_velocity
     /\ ctor.start <= ctor.stop
     /\ ctor.start < BaselineFrames)
    => built.success = "false"

\* C17: with the default construction parameters no Saccade that keeps
\* success = True spans fewer than 2 frames or lasts more than 1.5 s.
C17_LengthChecked ==
    (built.done /\ ~ctor.baseline_comparison /\ built.success = "true")
    => ~TooShortOrLong(built.start, built.stop, ctor.framerate)

C20_MarkedOnOwnSide ==
    pc = "stats" =>
        \A s \in Range(saccades) : \A k \in Slice(s) :
            IF IsLeft(arr, s) THEN saccading_left[k] ELSE saccading_right[k]

(***************************************************************************)
(* Properties of the path of runs above threshold, over SpecThreshold.     *)
(***************************************************************************)
\* C18: once the boundaries are trimmed, every start left for pairing has a
\* later stop, and trimming raises for no mask.
C18_EveryStartHasLaterStop ==
    /\ pc = "pair" =>
          \A i \in 1..Len(starts) : \E j \in 1..Len(stops) : stops[j] > starts[i]
    /\ pc = "raised" => candidate # <<>>

\* C19: a candidate that comes to the test of its trailing edge is either
\* discarded, when it ends on the last frame, or kept: the pass ends without
\* an exception and every candidate ending before the last frame is in
\* Bout.saccades.
C19_CandidateKeptOrDiscarded ==
    candidate # <<>> => (pc # "raised" /\ saccades # <<>>)

(***************************************************************************)
(* Further properties of overlap resolution, over Spec.                    *)
(***************************************************************************)
\* member i of the cluster is as long as any member and longer than every
\* member before it
FirstLongest(cluster, i) ==
    /\ \A j \in 1..Len(cluster) : cluster[j].duration <= cluster[i].duration
    /\ \A j \in 1..(i - 1) : cluster[j].duration < cluster[i].duration

\* C21: each pass of the overlap loop puts into new_saccades the first, in
\* cluster order, of the members of the cluster that have the greatest
\* duration.
C21_FirstOfLongestKept ==
    [][(pc = "resolve" /\ saccades # <<>>) =>
         \E i \in 1..Len(Cluster(saccades)) :
            /\ FirstLongest(Cluster(saccades), i)
            /\ new_saccades' = Append(new_saccades, Cluster(saccades)[i])]_vars

\* two overlapping Saccades of equal duration were detected and resolution
\* kept the one that came first
C21_Witness ==
    /\ Finished
    /\ Len(detected) = 2
    /\ Overlaps(detected[1], detected[2])
    /\ detected[1].duration = detected[2].duration
    /\ saccades = <<detected[1]>>

(***************************************************************************)
(* Properties of the configuration, over SpecConfig.                       *)
(***************************************************************************)
\* C22: no Bout exists with a framerate that is not positive, and a call of
\* butterworth_filter with low < 0 or high <= 0 ends with the failure of
\* its entry test, before the series is copied or unwrapped.
C22_InvalidRejectedAtEntry ==
    /\ pc # "unbuilt" => framerate > 0
    /\ (filt.done /\ (filt.low < 0 \/ filt.high <= 0))
          => (filt.exc = "AssertionError" /\ ~filt.copied)

(***************************************************************************)
(* Properties of the arrays of a call, over SpecSeries.                    *)
(***************************************************************************)
\* C23: throughout process_saccades, Saccade.__init__ and butterworth_filter
\* the caller's heading series and time series are what the caller passed:
\* no statement writes into them.
C23_CallerSeriesUntouched ==
    prog # NoProgram => (heap[1] = <<"arr">> /\ heap[2] = <<"time">>)

\* process_saccades has built a Saccade and returned, and some array was
\* written in place on the way
C23_Witness ==
    /\ prog.fn = "process_saccades"
    /\ prog.built >= 1
    /\ line > Len(Body(prog))
    /\ \E b \in 1..Len(heap) : "imul" \in Range(heap[b])

(***************************************************************************)
(* A further property of Saccade.__init__, over SpecSaccade.               *)
(***************************************************************************)
\* C24: a Saccade built with start and stop left at 0 and -1 is built
\* without an exception and its segment is the whole series.
C24_DefaultsCoverSeries ==
    (built.done /\ ctor.start = 0 /\ ctor.stop = -1)
    => (built.exc = "none" /\ built.length = ctor.frames)

(***************************************************************************)
(* Properties of Saccade.query, over SpecQuery.                            *)
(***************************************************************************)
\* C25: a number d given as start selects the frames that 'start+d' selects,
\* and a number d given as stop selects the frames that 'stop+d' selects.
C25_NumbersAreOffsets ==
    query.done =>
        /\ query.start.kind = "number" =>
              query.frames = Included(built, ctor.frames,
                                      [query.start EXCEPT !.kind = "start"],
                                      query.stop)
        /\ query.stop.kind = "number" =>
              query.frames = Included(built, ctor.frames, query.start,
                                      [query.stop EXCEPT !.kind = "stop"])

(***************************************************************************)
(* Properties of the value of the estimate, over SpecTrack.                *)
(***************************************************************************)
\* the square of the distance between two points
Distance2(p, q) ==
    (p[1] - q[1]) * (p[1] - q[1]) + (p[2] - q[2]) * (p[2] - q[2])

\* C26: no step of predict then update takes the position estimate farther
\* from the measurement than it was before the step.
C26_NeverFartherFromMeasurement ==
    Distance2(track.est, track.meas) <= Distance2(track.before, track.meas)

(***************************************************************************)
(* Properties of what overlap resolution discards, over SpecCluster.       *)
(***************************************************************************)
\* the candidates given to the overlap loop that it did not retain
Discarded == {detected[i] : i \in 1..Len(detected)} \ Range(saccades)

\* C27: every candidate overlap resolution discards shares a frame with some
\* Saccade it retains.
C27_DiscardedMeetsSurvivor ==
    Finished =>
        \A d \in Discarded :
            \E i \in 1..Len(saccades) : ~Disjoint(d, saccades[i])

(***************************************************************************)
(* Termination of the overlap loop, over SpecLoop.                         *)
(***************************************************************************)
\* one pass leaves the working set shorter and appends one of the candidates
\* the loop was given to new_saccades
PassShrinks ==
    [][(pc = "resolve" /\ saccades # <<>>) =>
         /\ Len(saccades') < Len(saccades)
         /\ \E x \in Range(detected) :
               new_saccades' = Append(new_saccades, x)]_vars

\* the passes made so far and the members still to treat are together no
\* more than the candidates given
PassesBounded ==
    [](pc = "resolve" => Len(new_saccades) + Len(saccades) <= Len(detected))

\* the loop is left only with an empty working set
EndsEmpty == [][(pc = "resolve" /\ pc' = "done") => saccades = <<>>]_vars

\* C28: the overlap loop terminates: every pass strictly shrinks the working
\* set and adds exactly one of the input candidates to the output, the passes
\* are never more than the candidates, and the loop is left, with the
\* working set empty.
C28_LoopTerminates ==
    /\ PassShrinks
    /\ PassesBounded
    /\ EndsEmpty
    /\ (pc = "resolve" ~> pc = "done")

\* C28, its case: the loop has ended after two passes over three candidates
C28_Witness ==
    /\ pc = "done"
    /\ Len(detected) = 3
    /\ Len(new_saccades) = 2

(***************************************************************************)
(* The gain an update needs, over SpecKalman.                              *)
(***************************************************************************)
\* the step is a call that reaches the update of add_measurement: the method
\* itself, or a store on a KalmanAngle that already holds a frame
UpdateStep ==
    /\ calls' = calls + 1
    /\ \/ call'.op = "add_measurement"
       \/ call'.op = "store" /\ frame_num > 0

\* get_prediction has run since construction and could invert its matrix
GainComputed == (\E i \in 1..Len(P) : P[i] = "predict") /\ ~Singular

\* an update that returns was made after a prediction computed the gain
UpdateNeedsGain == [][(UpdateStep /\ ret'.exc = "none") => GainComputed]_vars

\* a store after the first, with no predict since construction, fails
SecondStoreFails ==
    [][(StoreStep /\ readings # <<>> /\ P = <<>>)
       => ret'.exc = "AttributeError"]_vars

\* a store that follows a predict that returned does not fail for want of
\* the gain
AlternationSafe ==
    [][(StoreStep /\ call.op = "predict" /\ ret.exc = "none")
       => ret'.exc = "none"]_vars

\* C29: an update succeeds only after a prediction has computed the gain K:
\* two stores with no predict since construction fail at the second, and a
\* store made right after a predict that returned, as in generate_vals,
\* never fails.
C29_UpdateAfterPrediction ==
    UpdateNeedsGain /\ SecondStoreFails /\ AlternationSafe

\* C29, its case: store, predict, store on a KalmanAngle, and the second
\* store has made its update
C29_Witness ==
    /\ kind = "angle"
    /\ call.op = "store"
    /\ Len(readings) = 2
    /\ P = <<"predict", "update">>
    /\ ret.exc = "none"

(***************************************************************************)
(* The strategy process_saccades runs, over SpecStrategy.                  *)
(***************************************************************************)
\* the strategy the stated precedence gives for the flags
Precedence(flags) ==
    CASE Truthy(flags.speed_noise_method) -> "peak_finder"
      [] ~Truthy(flags.speed_noise_method) /\ Truthy(flags.kalman_method)
            -> "kalman"
      [] /\ ~Truthy(flags.speed_noise_method)
         /\ ~Truthy(flags.kalman_method)
         /\ Truthy(flags.acceleration_method) -> "acceleration"
      [] OTHER -> "threshold_run"

=============================================================================
